---- MODULE Spec2Model ----
(***************************************************************************)
(* Model of tools/deploy_vscode_instance.js: the create path of the       *)
(* VSCode instance provisioning tool.  Each call of deployVSCodeInstance  *)
(* is a process whose steps are the code between two awaits; the          *)
(* container engine, the filesystem, the TCP stack and Math.random are    *)
(* the environment and answer nondeterministically.                       *)
(***************************************************************************)
EXTENDS Integers, Sequences, FiniteSets, TLC

\* ------------------------------------------------------------------ bounds
\* Number of create calls issued in one process lifetime.
NCalls == 2

\* ------------------------------------------------------- program constants
minPort == 10000
maxPort == 65535
maxAttempts == 10
DEFAULT_PASSWORD == "changeme"

\* --------------------------------------------------------------- JS values
Undefined == "undefined"
Null == "null"
NoPort == 0

\* !v of JavaScript for a string (or undefined, null) and for a number.
Falsy(v) == v \in {Undefined, Null, ""}
Truthy(v) == ~Falsy(v)
FalsyNumber(n) == n = 0
TruthyNumber(n) == ~FalsyNumber(n)

\* The first index of a call: calls are numbered in order of arrival.
Calls == 1..NCalls

\* ------------------------------------------------------------ input domains
Runtimes == {"docker", "podman"}
RuntimeModes == {"auto", "podman"}
ParamNames == {Undefined, "demo"}
ParamWorkspaces == {Undefined, "/tmp/ws"}
ParamPorts == {NoPort, 12345}
ParamPasswords == {Undefined, "", "s3cret"}
ParamRuntimes == {Undefined} \cup Runtimes
Params == [name : ParamNames, workspace_path : ParamWorkspaces, port : ParamPorts,
           password : ParamPasswords, runtime : ParamRuntimes]
NoParams == [name |-> Undefined, workspace_path |-> Undefined, port |-> NoPort,
             password |-> Undefined, runtime |-> Undefined]

\* Values of Math.random() as fractions <<numerator, denominator>> in [0, 1).
RandomValues == {<<0, 1>>, <<2345, 55536>>, <<38667, 38668>>}

\* Outcomes of server.listen(port, '0.0.0.0'): the 'listening' event or an
\* 'error' event with that code.
ListenOutcomes == {"listening", "EADDRINUSE", "EACCES"}

\* error.message of a failed launch command, as the list of its parts.
LaunchErrors ==
  { <<"Command failed:", "Bind for 0.0.0.0 failed:", "port is already allocated">>,
    <<"Command failed:", "bind:", "address already in use">>,
    <<"Command failed:", "Unable to find image">> }

\* stdout of the status query, as a list of characters and words.
StatusOutputs == { <<>>, <<"\n">>, <<"Up 2 seconds", "\n">> }
Whitespace == {" ", "\n", "\t"}

\* ------------------------------------------------------------ pure helpers
\* String.prototype.includes on a message given by its parts.
Includes(msg, needle) == \E i \in 1..Len(msg) : msg[i] = needle

RECURSIVE TrimStart(_)
TrimStart(s) ==
  IF s # <<>> /\ Head(s) \in Whitespace THEN TrimStart(Tail(s)) ELSE s

RECURSIVE TrimEnd(_)
TrimEnd(s) ==
  IF s # <<>> /\ s[Len(s)] \in Whitespace
  THEN TrimEnd(SubSeq(s, 1, Len(s) - 1)) ELSE s

\* String.prototype.trim
Trim(s) == TrimEnd(TrimStart(s))

\* Math.floor(Math.random() * (maxPort - minPort + 1)) + minPort
RandomPortNoOffset(r) == (r[1] * (maxPort - minPort + 1)) \div r[2]
RandomPort(r) == ((r[1] * (maxPort - minPort + 1)) \div r[2]) + minPort

\* What checkPortAvailability resolves for the event the listener receives.
checkPortAvailabilityFailClosed(outcome) == outcome = "listening"
checkPortAvailability(outcome) ==
  IF outcome = "listening" THEN TRUE
  ELSE IF outcome = "EADDRINUSE" THEN FALSE ELSE TRUE

\* for (attempt = 0; attempt < maxAttempts; attempt++)
LoopGuardOffByOne(attempt) == attempt <= maxAttempts
LoopGuard(attempt) == attempt < maxAttempts

\* if (detectedRuntime) return detectedRuntime;
CacheHitNever(cache) == FALSE
CacheHit(cache) == Truthy(cache)

\* The cache after a call that gives an explicit runtime: line 124 reads
\* params.runtime and assigns nothing to detectedRuntime.
CacheAfterOverrideStored(cache, override) == override
CacheAfterOverride(cache, override) == cache

\* error.message.includes('port is already allocated')
IsPortAllocatedAlways(msg) == TRUE
IsPortAllocated(msg) == Includes(msg, "port is already allocated")

\* password: params.password !== undefined ? params.password : DEFAULT_PASSWORD
ResolvePassword(p) == IF p # Undefined THEN p ELSE DEFAULT_PASSWORD

\* passwordless: !password
PasswordlessOfParam(pw) == pw \in {"", DEFAULT_PASSWORD}
Passwordless(pw) == Falsy(pw)

\* url: `http://localhost:${port}`
Url(p) == <<"http://localhost:", p>>

\* ----------------------------------------------------- command synthesizer
\* A command line is the list of its shell words; a word is a tuple whose
\* first element names its shape: <<"word", text>>, <<"assign", key, value>>
\* for key=value, <<"portmap", host, container>> for host:container,
\* <<"name", instanceName>>, <<"bind", path, target>> and
\* <<"volume", prefix, instanceName, target>>.  Values are interpolated as
\* they are; the values of the input domains hold no space or quote.
DEFAULT_EXTENSIONS == <<"ms-python.python", "dbaeumer.vscode-eslint">>
DEFAULT_CPU_LIMIT == "1.0"
DEFAULT_MEMORY_LIMIT == "2g"

\* instanceName: `vscode-${params.name}-${instanceId}`
InstanceName(name, instanceId) == <<"vscode-", name, "-", instanceId>>

\* Object.entries(environment).map(([key, value]) => `-e ${key}=${value}`)
RECURSIVE EnvVars(_)
EnvVars(environment) ==
  IF environment = <<>> THEN <<>>
  ELSE << <<"word", "-e">>, <<"assign", Head(environment)[1], Head(environment)[2]>> >>
       \o EnvVars(Tail(environment))

\* extensions.join(',')
RECURSIVE Join(_)
Join(extensions) ==
  IF extensions = <<>> THEN <<>>
  ELSE IF Len(extensions) = 1 THEN extensions
  ELSE <<Head(extensions), ",">> \o Join(Tail(extensions))

\* runtime === 'podman' ? '--restart=unless-stopped' : '--restart unless-stopped'
RestartFlag(runtime) ==
  IF runtime = "podman" THEN << <<"word", "--restart=unless-stopped">> >>
  ELSE << <<"word", "--restart">>, <<"word", "unless-stopped">> >>

\* (password === '' || password === undefined || password === null)
\*   ? '' : `-e PASSWORD=${password}`
PasswordEnv(password) ==
  IF password = "" \/ password = Undefined \/ password = Null THEN <<>>
  ELSE << <<"word", "-e">>, <<"assign", "PASSWORD", password>> >>

\* buildContainerCommand (lines 350-381).
buildContainerCommandFixedPort(runtime, instanceName, workspacePath, port, password, extensions, cpuLimit, memoryLimit, environment) ==
  << <<"word", runtime>>, <<"word", "run">>, <<"word", "-d">>,
     <<"word", "-p">>, <<"portmap", 8080, 8080>> >>
buildContainerCommandDockerOnly(runtime, instanceName, workspacePath, port, password, extensions, cpuLimit, memoryLimit, environment) ==
  << <<"word", "docker">>, <<"word", "run">>, <<"word", "-d">>,
     <<"word", "-p">>, <<"portmap", port, 8080>> >>
buildContainerCommand(runtime, instanceName, workspacePath, port, password, extensions, cpuLimit, memoryLimit, environment) ==
  << <<"word", runtime>>, <<"word", "run">>, <<"word", "-d">>,
     <<"word", "--name">>, <<"name", instanceName>> >>
  \o RestartFlag(runtime)
  \o << <<"word", "-p">>, <<"portmap", port, 8080>>,
        <<"word", "-v">>, <<"bind", workspacePath, "/workspace">>,
        <<"word", "-v">>,
        <<"volume", "vscode-data-", instanceName, "/home/coder/.local/share/code-server">>,
        <<"word", "-v">>,
        <<"volume", "vscode-extensions-", instanceName, "/home/coder/.vscode/extensions">>,
        <<"assign", "--cpus", cpuLimit>>,
        <<"assign", "--memory", memoryLimit>> >>
  \o EnvVars(environment)
  \o PasswordEnv(password)
  \o << <<"word", "-e">>, <<"assign", "EXTENSIONS", Join(extensions)>>,
        <<"word", "codercom/code-server:latest">> >>

\* `${runtime} ps --filter "name=${instanceName}" --format "{{.Status}}"`
StatusCommand(runtime, instanceName) ==
  << <<"word", runtime>>, <<"word", "ps">>, <<"word", "--filter">>,
     <<"assign", "name", instanceName>>, <<"word", "--format">>,
     <<"word", "{{.Status}}">> >>

\* The credential flags of a command: each -e followed by PASSWORD=<value>.
CredentialFlags(cmd) ==
  {i \in 1..(Len(cmd) - 1) :
     /\ cmd[i][1] = "word" /\ cmd[i][2] = "-e"
     /\ cmd[i + 1][1] = "assign"
     /\ cmd[i + 1][2] = "PASSWORD"}

\* The host ports of the port-mapping clauses of a command.
HostPorts(cmd) == {cmd[i][2] : i \in {j \in 1..Len(cmd) : cmd[j][1] = "portmap"}}

\* ------------------------------------------------------------------- state
VARIABLES
  CONTAINER_RUNTIME,  \* process.env.CONTAINER_RUNTIME || 'auto', read at load
  detectedRuntime,    \* the module-level cache, Null until set
  files,              \* the calls whose record file exists in vscode-instances
  call,               \* per call: position, inputs, locals, and what it did
  build,              \* one application of the command synthesizer on its own
  probe               \* one run of checkPortAvailability on its own, and the host

vars == <<CONTAINER_RUNTIME, detectedRuntime, files, call, build, probe>>

NoResult == [kind |-> "none", code |-> 0, message |-> "", cause |-> "",
             suggested_port |-> NoPort, port |-> NoPort, url |-> <<>>,
             passwordless |-> FALSE]

ErrorResult(code, message, cause, suggested) ==
  [NoResult EXCEPT !.kind = "error", !.code = code, !.message = message,
                   !.cause = cause, !.suggested_port = suggested]

\* The object returned at lines 303-319.
SuccessResult(p, pw) ==
  [NoResult EXCEPT !.kind = "success", !.port = p, !.url = Url(p),
                   !.passwordless = Passwordless(pw)]

\* The handler of the outer try (lines 320-334).
OuterCatch(cause) ==
  ErrorResult(-32603, "Failed to deploy VSCode instance", cause, NoPort)

\* The locals of one run of getRandomPort, and what it has done so far.
NoAlloc == [ctx |-> "none", attempt |-> 0, probes |-> 0, busy |-> 0,
            candidate |-> NoPort, isAvailable |-> FALSE, port |-> NoPort]

IdleCall ==
  [pc |-> "idle", params |-> NoParams, runtime |-> Undefined, port |-> NoPort,
   password |-> Undefined, alloc |-> NoAlloc,
   engineProbes |-> 0, probeLog |-> <<>>, cacheRead |-> Undefined, cacheWrites |-> 0,
   requested |-> "none", portProbed |-> FALSE, freePort |-> NoPort,
   written |-> 0, recordPort |-> NoPort, containerCommand |-> <<>>,
   launched |-> 0, launchError |-> <<>>, unlink |-> "none",
   statusCommand |-> <<>>, statusQueried |-> 0, containerStatus |-> <<>>,
   result |-> NoResult]

\* The synthesizer and the prober at rest.
NoBuild == [pc |-> "idle", runtime |-> Undefined, port |-> NoPort,
            password |-> Undefined, extensions |-> <<>>, environment |-> <<>>,
            containerCommand |-> <<>>]
NoProbe == [pc |-> "idle", port |-> NoPort, held |-> {}, event |-> "none",
            resolved |-> <<>>, listening |-> FALSE, closed |-> 0]

Init ==
  /\ CONTAINER_RUNTIME \in RuntimeModes
  /\ detectedRuntime = Null
  /\ files = {}
  /\ call = [c \in Calls |-> IdleCall]
  /\ build = NoBuild
  /\ probe = NoProbe

\* The order of the stages of deployVSCodeInstance.
StagesValidateLate ==
  <<"resolve", "validate", "access", "port", "mkdir", "write", "launch", "grace", "status">>
StagesLaunchFirst ==
  <<"validate", "resolve", "access", "port", "mkdir", "launch", "write", "grace", "status">>
Stages ==
  <<"validate", "resolve", "access", "port", "mkdir", "write", "launch", "grace", "status">>

\* The stage that follows stage s.
After(s) == Stages[(CHOOSE i \in 1..Len(Stages) : Stages[i] = s) + 1]

\* Update of the fields of call c.
Goto(c, rec) == call' = [call EXCEPT ![c] = rec]
Finish(c, rec, res) == call' = [call EXCEPT ![c] = [rec EXCEPT !.pc = "done", !.result = res]]

\* ------------------------------------------------------------------ steps
\* The caller invokes deployVSCodeInstance(params).
Invoke(c) ==
  /\ call[c].pc = "idle"
  /\ \A d \in Calls : d < c => call[d].pc # "idle"
  /\ \E p \in Params : Goto(c, [call[c] EXCEPT !.pc = Stages[1], !.params = p])
  /\ UNCHANGED <<build, probe, CONTAINER_RUNTIME, detectedRuntime, files>>

\* Lines 90-118: the two required parameters.
Validate(c) ==
  /\ call[c].pc = "validate"
  /\ IF ~Truthy(call[c].params.name)
     THEN Finish(c, call[c], ErrorResult(-32602, "name parameter is required", "", NoPort))
     ELSE IF ~Truthy(call[c].params.workspace_path)
     THEN Finish(c, call[c],
                 ErrorResult(-32602, "workspace_path parameter is required", "", NoPort))
     ELSE Goto(c, [call[c] EXCEPT !.pc = After("validate")])
  /\ UNCHANGED <<build, probe, CONTAINER_RUNTIME, detectedRuntime, files>>

\* Line 124 and the synchronous head of detectContainerRuntime (lines 32-40).
ResolveRuntime(c) ==
  /\ call[c].pc = "resolve"
  /\ LET me == call[c] IN
     IF Truthy(me.params.runtime)
     THEN /\ Goto(c, [me EXCEPT !.pc = After("resolve"), !.runtime = me.params.runtime])
          /\ detectedRuntime' = CacheAfterOverride(detectedRuntime, me.params.runtime)
     ELSE IF CacheHit(detectedRuntime)
     THEN /\ Goto(c, [me EXCEPT !.pc = After("resolve"), !.runtime = detectedRuntime,
                                !.cacheRead = detectedRuntime])
          /\ UNCHANGED detectedRuntime
     ELSE IF CONTAINER_RUNTIME # "auto"
     THEN /\ Goto(c, [me EXCEPT !.pc = After("resolve"), !.runtime = CONTAINER_RUNTIME,
                                !.cacheRead = detectedRuntime,
                                !.cacheWrites = @ + 1])
          /\ detectedRuntime' = CONTAINER_RUNTIME
     ELSE /\ Goto(c, [me EXCEPT !.pc = "docker_version", !.cacheRead = detectedRuntime])
          /\ UNCHANGED detectedRuntime
  /\ UNCHANGED <<build, probe, CONTAINER_RUNTIME, files>>

\* The throw of line 72, caught at lines 125-137.
NoRuntimeError ==
  ErrorResult(-32603, "Neither Docker nor Podman is available or running", "", NoPort)

\* The catch of lines 53-55 only logs: detection goes on with podman.
AfterDockerFailedThrows == "done"
AfterDockerFailed == "podman_version"

\* await execAsync('docker --version'), lines 43-44 and 53-55.
ExecDockerVersion(c) ==
  /\ call[c].pc = "docker_version"
  /\ \E ok \in BOOLEAN :
       Goto(c, [call[c] EXCEPT !.engineProbes = @ + 1,
                               !.probeLog = Append(@, <<"docker", "version", ok>>),
                               !.pc = IF ok THEN "docker_ps" ELSE AfterDockerFailed])
  /\ UNCHANGED <<build, probe, CONTAINER_RUNTIME, detectedRuntime, files>>

\* await execAsync('docker ps'), lines 45-52.
ExecDockerPs(c) ==
  /\ call[c].pc = "docker_ps"
  /\ \E ok \in BOOLEAN :
       IF ok
       THEN /\ Goto(c, [call[c] EXCEPT !.engineProbes = @ + 1, !.pc = After("resolve"),
                                       !.probeLog = Append(@, <<"docker", "ps", TRUE>>),
                                       !.runtime = "docker", !.cacheWrites = @ + 1])
            /\ detectedRuntime' = "docker"
       ELSE /\ Goto(c, [call[c] EXCEPT !.engineProbes = @ + 1, !.pc = AfterDockerFailed,
                                       !.probeLog = Append(@, <<"docker", "ps", FALSE>>)])
            /\ UNCHANGED detectedRuntime
  /\ UNCHANGED <<build, probe, CONTAINER_RUNTIME, files>>

\* await execAsync('podman --version'), lines 58-59 and 68-72.
ExecPodmanVersion(c) ==
  /\ call[c].pc = "podman_version"
  /\ \E ok \in BOOLEAN :
       IF ok
       THEN Goto(c, [call[c] EXCEPT !.engineProbes = @ + 1, !.pc = "podman_ps",
                                    !.probeLog = Append(@, <<"podman", "version", TRUE>>)])
       ELSE Finish(c, [call[c] EXCEPT !.engineProbes = @ + 1,
                                      !.probeLog = Append(@, <<"podman", "version", FALSE>>)],
                   NoRuntimeError)
  /\ UNCHANGED <<build, probe, CONTAINER_RUNTIME, detectedRuntime, files>>

\* await execAsync('podman ps'), lines 60-67 and 72.
ExecPodmanPs(c) ==
  /\ call[c].pc = "podman_ps"
  /\ \E ok \in BOOLEAN :
       IF ok
       THEN /\ Goto(c, [call[c] EXCEPT !.engineProbes = @ + 1, !.pc = After("resolve"),
                                       !.probeLog = Append(@, <<"podman", "ps", TRUE>>),
                                       !.runtime = "podman", !.cacheWrites = @ + 1])
            /\ detectedRuntime' = "podman"
       ELSE /\ Finish(c, [call[c] EXCEPT !.engineProbes = @ + 1,
                                         !.probeLog = Append(@, <<"podman", "ps", FALSE>>)],
                      NoRuntimeError)
            /\ UNCHANGED detectedRuntime
  /\ UNCHANGED <<build, probe, CONTAINER_RUNTIME, files>>

\* await fs.access(workspacePath), lines 148-163.
AccessWorkspace(c) ==
  /\ call[c].pc = "access"
  /\ \E exists \in BOOLEAN :
       IF exists
       THEN Goto(c, [call[c] EXCEPT !.pc = After("access")])
       ELSE Finish(c, call[c], ErrorResult(-32602, "Workspace path not found", "", NoPort))
  /\ UNCHANGED <<build, probe, CONTAINER_RUNTIME, detectedRuntime, files>>

\* Entry of getRandomPort for one of its three call sites.
StartAlloc(ctx) == [NoAlloc EXCEPT !.ctx = ctx]

\* Lines 166-191: the requested port is probed once; no port means allocate.
ResolvePort(c) ==
  /\ call[c].pc = "port"
  /\ LET me == call[c] IN
     IF TruthyNumber(me.params.port)
     THEN \E outcome \in ListenOutcomes :
            IF checkPortAvailability(outcome)
            THEN Goto(c, [me EXCEPT !.pc = After("port"), !.port = me.params.port,
                                    !.portProbed = TRUE, !.requested = "free",
                                    !.freePort = me.params.port])
            ELSE Goto(c, [me EXCEPT !.pc = "alloc", !.port = me.params.port,
                                    !.portProbed = TRUE, !.requested = "busy",
                                    !.alloc = StartAlloc("conflict")])
     ELSE Goto(c, [me EXCEPT !.pc = "alloc", !.alloc = StartAlloc("fresh")])
  /\ UNCHANGED <<build, probe, CONTAINER_RUNTIME, detectedRuntime, files>>

\* One iteration of the loop of getRandomPort (lines 423-430); the candidate
\* is local to the iteration and is gone when the loop goes round.
GetRandomPortProbe(c) ==
  /\ call[c].pc = "alloc"
  /\ LoopGuard(call[c].alloc.attempt)
  /\ \E r \in RandomValues, outcome \in ListenOutcomes :
       LET me == call[c]
           candidate == RandomPort(r)
       IN IF checkPortAvailability(outcome)
          THEN Goto(c, [me EXCEPT !.pc = "alloc_returned", !.portProbed = TRUE,
                                  !.alloc.probes = @ + 1, !.alloc.candidate = candidate,
                                  !.alloc.isAvailable = TRUE, !.alloc.port = candidate])
          ELSE Goto(c, [me EXCEPT !.portProbed = TRUE, !.alloc.probes = @ + 1,
                                  !.alloc.candidate = NoPort,
                                  !.alloc.isAvailable = FALSE,
                                  !.alloc.busy = @ + 1, !.alloc.attempt = @ + 1])
  /\ UNCHANGED <<build, probe, CONTAINER_RUNTIME, detectedRuntime, files>>

\* The loop ends without a free port: the throw of line 433.
GetRandomPortGiveUp(c) ==
  /\ call[c].pc = "alloc"
  /\ ~LoopGuard(call[c].alloc.attempt)
  /\ Goto(c, [call[c] EXCEPT !.pc = "alloc_thrown"])
  /\ UNCHANGED <<build, probe, CONTAINER_RUNTIME, detectedRuntime, files>>

\* Where the call goes once the rollback has its alternative port: the return
\* of lines 248-262.
AfterRollbackRelaunch == "launch"
AfterRollback == "done"

\* The caller of getRandomPort receives the port: line 190 (no port asked),
\* lines 171-186 (requested port busy) or lines 246-262 (after the rollback).
AllocReturned(c) ==
  /\ call[c].pc = "alloc_returned"
  /\ LET me == call[c]
         alternativePort == me.alloc.port
         rest == [me EXCEPT !.alloc = NoAlloc]
     IN CASE me.alloc.ctx = "fresh" ->
               Goto(c, [rest EXCEPT !.pc = After("port"), !.port = alternativePort,
                                    !.freePort = alternativePort])
          [] me.alloc.ctx = "conflict" ->
               Finish(c, rest, ErrorResult(-32603, "Port is already in use", "",
                                           alternativePort))
          [] me.alloc.ctx = "rollback" ->
               Goto(c, [rest EXCEPT !.pc = AfterRollback,
                                    !.result = ErrorResult(-32603, "Port is already allocated",
                                                           "", alternativePort)])
  /\ UNCHANGED <<build, probe, CONTAINER_RUNTIME, detectedRuntime, files>>

\* Whether a throw of getRandomPort leaves deployVSCodeInstance uncaught: the
\* three call sites (lines 171, 190, 246) all lie inside the try of line 119.
EscapesFromHandler(ctx) == ctx = "rollback"
Escapes(ctx) == FALSE

\* The throw of getRandomPort reaches the outer catch from all three call sites.
AllocThrown(c) ==
  /\ call[c].pc = "alloc_thrown"
  /\ IF Escapes(call[c].alloc.ctx)
     THEN Goto(c, [call[c] EXCEPT !.pc = "rejected", !.alloc = NoAlloc])
     ELSE Finish(c, [call[c] EXCEPT !.alloc = NoAlloc],
                 OuterCatch("Could not find an available port after multiple attempts"))
  /\ UNCHANGED <<build, probe, CONTAINER_RUNTIME, detectedRuntime, files>>

\* Lines 193-208: the defaults, then await fs.mkdir(instancesDir, {recursive}).
Mkdir(c) ==
  /\ call[c].pc = "mkdir"
  /\ LET me == [call[c] EXCEPT !.password = ResolvePassword(call[c].params.password)] IN
     \E ok \in BOOLEAN :
       IF ok THEN Goto(c, [me EXCEPT !.pc = After("mkdir")])
       ELSE Finish(c, me, OuterCatch("mkdir"))
  /\ UNCHANGED <<build, probe, CONTAINER_RUNTIME, detectedRuntime, files>>

\* configPath (line 225): the record file is named by the instance name, which
\* ends in the instance id; calls are numbered by their instance ids, and a
\* record file is identified by the id in its name.
ConfigPathByName(c) == 1
ConfigPath(c) == c

\* Lines 210-226: await fs.writeFile(configPath, ...); the file is named by
\* the instance name, which holds the id generated for this call.
WriteRecord(c) ==
  /\ call[c].pc = "write"
  /\ \E ok \in BOOLEAN :
       IF ok
       THEN /\ Goto(c, [call[c] EXCEPT !.pc = After("write"), !.written = @ + 1,
                                       !.recordPort = call[c].port])
            /\ files' = files \cup {ConfigPath(c)}
       ELSE /\ Finish(c, call[c], OuterCatch("writeFile"))
            /\ UNCHANGED files
  /\ UNCHANGED <<build, probe, CONTAINER_RUNTIME, detectedRuntime>>

\* Lines 229-278: await execAsync(containerCommand) and the handler of its error.
Launch(c) ==
  /\ call[c].pc = "launch"
  /\ \E error \in {<<>>} \cup LaunchErrors :
       LET me == [call[c] EXCEPT
                    !.containerCommand =
                       buildContainerCommand(call[c].runtime,
                                             InstanceName(call[c].params.name, c),
                                             call[c].params.workspace_path, call[c].port,
                                             call[c].password, DEFAULT_EXTENSIONS,
                                             DEFAULT_CPU_LIMIT, DEFAULT_MEMORY_LIMIT, <<>>),
                    !.launched = @ + 1, !.launchError = error] IN
       IF error = <<>>
       THEN Goto(c, [me EXCEPT !.pc = After("launch")])
       ELSE IF IsPortAllocated(error)
       THEN Goto(c, [me EXCEPT !.pc = "unlink"])
       ELSE Finish(c, me, ErrorResult(-32603, "Failed to deploy container", "", NoPort))
  /\ UNCHANGED <<build, probe, CONTAINER_RUNTIME, detectedRuntime, files>>

\* The records directory after a successful fs.unlink(configPath).
FilesAfterUnlinkKept(fs, c) == fs
FilesAfterUnlink(fs, c) == fs \ {ConfigPath(c)}

\* Lines 238-246: await fs.unlink(configPath), its error only logged.
Unlink(c) ==
  /\ call[c].pc = "unlink"
  /\ \E ok \in BOOLEAN :
       /\ Goto(c, [call[c] EXCEPT !.pc = "alloc", !.alloc = StartAlloc("rollback"),
                                  !.unlink = IF ok THEN "ok" ELSE "failed"])
       /\ files' = IF ok THEN FilesAfterUnlink(files, c) ELSE files
  /\ UNCHANGED <<build, probe, CONTAINER_RUNTIME, detectedRuntime>>

\* Line 281: the 2 s grace period.
Grace(c) ==
  /\ call[c].pc = "grace"
  /\ Goto(c, [call[c] EXCEPT !.pc = After("grace")])
  /\ UNCHANGED <<build, probe, CONTAINER_RUNTIME, detectedRuntime, files>>

\* if (!containerStatus.trim())
StartedAlways(stdout) == TRUE
Started(stdout) == Trim(stdout) # <<>>

\* Lines 284-319: the status query and the final result.
QueryStatus(c) ==
  /\ call[c].pc = "status"
  /\ \E threw \in BOOLEAN, stdout \in StatusOutputs :
       LET me == [call[c] EXCEPT
                    !.statusCommand = StatusCommand(call[c].runtime,
                                                    InstanceName(call[c].params.name, c)),
                    !.statusQueried = @ + 1] IN
       IF threw
       THEN Finish(c, me, OuterCatch("status query"))
       ELSE IF ~Started(stdout)
       THEN Finish(c, [me EXCEPT !.containerStatus = stdout],
                   ErrorResult(-32603, "Failed to start VSCode instance", "", NoPort))
       ELSE Finish(c, [me EXCEPT !.containerStatus = stdout],
                   SuccessResult(me.port, me.password))
  /\ UNCHANGED <<build, probe, CONTAINER_RUNTIME, detectedRuntime, files>>

\* The caller has the result; the call's locals are gone.
Return(c) ==
  /\ call[c].pc = "done"
  /\ Goto(c, [IdleCall EXCEPT !.pc = "returned"])
  /\ UNCHANGED <<build, probe, CONTAINER_RUNTIME, detectedRuntime, files>>

\* Calls that have been invoked and have not returned.
InFlight == {c \in Calls : call[c].pc \notin {"idle", "returned"}}

\* The caller issues its calls one after the other: the next call is made
\* when the previous one has returned.
InvokeInTurn(c) == InFlight = {} /\ Invoke(c)

Next ==
  \/ \E c \in Calls : InvokeInTurn(c)
  \/ \E c \in Calls : Validate(c)
  \/ \E c \in Calls : ResolveRuntime(c)
  \/ \E c \in Calls : ExecDockerVersion(c)
  \/ \E c \in Calls : ExecDockerPs(c)
  \/ \E c \in Calls : ExecPodmanVersion(c)
  \/ \E c \in Calls : ExecPodmanPs(c)
  \/ \E c \in Calls : AccessWorkspace(c)
  \/ \E c \in Calls : ResolvePort(c)
  \/ \E c \in Calls : GetRandomPortProbe(c)
  \/ \E c \in Calls : GetRandomPortGiveUp(c)
  \/ \E c \in Calls : AllocReturned(c)
  \/ \E c \in Calls : AllocThrown(c)
  \/ \E c \in Calls : Mkdir(c)
  \/ \E c \in Calls : WriteRecord(c)
  \/ \E c \in Calls : Launch(c)
  \/ \E c \in Calls : Unlink(c)
  \/ \E c \in Calls : Grace(c)
  \/ \E c \in Calls : QueryStatus(c)
  \/ \E c \in Calls : Return(c)

Spec == Init /\ [][Next]_vars

\* ------------------------------------------------------------- properties
Done(c) == call[c].pc = "done"

\* The launch command of call c failed and the engine's message says the
\* port is already allocated.
LaunchPortAllocated(c) ==
  /\ call[c].launched > 0
  /\ call[c].launchError # <<>>
  /\ Includes(call[c].launchError, "port is already allocated")

\* C1 as stated: whenever a call whose requested port the probe reported free
\* fails at launch with "port is already allocated", its record file does not
\* exist when the call returns.
C1_RecordGoneAfterRollback ==
  \A c \in Calls :
    (Done(c) /\ call[c].requested = "free" /\ LaunchPortAllocated(c)) => c \notin files

\* C1 amended: such a call has tried once to delete its record file, and the
\* file does not exist when the call returns unless that deletion itself
\* failed (the failure is only logged).
C1_RecordGoneUnlessUnlinkFailed ==
  \A c \in Calls :
    (Done(c) /\ call[c].requested = "free" /\ LaunchPortAllocated(c)) =>
      /\ call[c].written = 1
      /\ call[c].unlink \in {"ok", "failed"}
      /\ (call[c].unlink = "ok" => c \notin files)

C1_Witness ==
  \E c \in Calls :
    /\ Done(c) /\ call[c].requested = "free" /\ LaunchPortAllocated(c)
    /\ call[c].written = 1 /\ call[c].unlink = "ok" /\ c \notin files

\* C2: whenever a call's launch fails with "port is already allocated", the
\* returned error carries a suggested port, and that port differs from the
\* port the call tried to launch with.
C2_SuggestedPortDiffers ==
  \A c \in Calls :
    (Done(c) /\ LaunchPortAllocated(c)) =>
      /\ call[c].result.kind = "error"
      /\ call[c].result.suggested_port # NoPort
      /\ call[c].result.suggested_port # call[c].port

\* C3: whenever the probe reports the requested port occupied, the call
\* returns the port-conflict error with a suggested port distinct from the
\* requested one, and has written no record and executed no launch command.
C3_PortConflictSuggestsOther ==
  \A c \in Calls :
    (Done(c) /\ call[c].requested = "busy") =>
      /\ call[c].result.kind = "error"
      /\ call[c].result.message = "Port is already in use"
      /\ call[c].result.suggested_port # NoPort
      /\ call[c].result.suggested_port # call[c].params.port
      /\ call[c].written = 0
      /\ c \notin files
      /\ call[c].launched = 0

\* C4: the launch command of a call is executed only after the call has
\* written its record: no call has launched, or is about to, without it.
C4_PersistBeforeLaunch ==
  \A c \in Calls :
    /\ (call[c].launched > 0 \/ call[c].pc = "launch") => call[c].written > 0
    /\ call[c].pc = "launch" => c \in files

C4_Witness ==
  \E c \in Calls : call[c].launched = 1 /\ call[c].written = 1

\* C5: a call that has written its record returns with the record still in
\* place, whatever the outcome, unless its launch failed with "port is
\* already allocated".
C5_RecordRetained ==
  \A c \in Calls :
    (Done(c) /\ call[c].written > 0 /\ ~LaunchPortAllocated(c)) =>
      (c \in files /\ call[c].unlink = "none")

C5_Witness ==
  \E c \in Calls :
    /\ Done(c) /\ call[c].written = 1 /\ c \in files
    /\ call[c].launchError # <<>> /\ ~LaunchPortAllocated(c)
    /\ call[c].result.message = "Failed to deploy container"

\* Call c leaves the runtime resolution of line 124 in this step.
Resolves(c) == call[c].pc = "resolve" /\ call'[c].pc # "resolve"

\* C6: once the cache holds a detected runtime, it keeps that value, no call
\* runs another engine probe, and every resolution without an override
\* returns the cached runtime at once.
C6_RuntimeCache ==
  [][ detectedRuntime # Null =>
        /\ detectedRuntime' = detectedRuntime
        /\ \A c \in Calls :
             /\ call'[c].engineProbes <= call[c].engineProbes
             /\ (Resolves(c) /\ ~Truthy(call[c].params.runtime)) =>
                  /\ call'[c].runtime = detectedRuntime
                  /\ call'[c].pc = "access" ]_vars

C6_Witness ==
  \E c \in Calls :
    /\ CONTAINER_RUNTIME = "auto"
    /\ call[c].pc = "access"
    /\ ~Truthy(call[c].params.runtime)
    /\ call[c].cacheRead \in Runtimes
    /\ call[c].runtime = detectedRuntime
    /\ call[c].engineProbes = 0

C8_AllocatorBounded ==
  \A c \in Calls :
    LET a == call[c].alloc IN
    /\ a.probes <= 10
    /\ call[c].pc = "alloc_returned" =>
         /\ a.port >= 10000 /\ a.port <= 65535
         /\ a.port = a.candidate /\ a.isAvailable
         /\ a.busy = a.probes - 1
    /\ call[c].pc = "alloc_thrown" =>
         /\ a.probes = 10 /\ a.busy = 10 /\ ~a.isAvailable
    /\ call[c].pc = "alloc" => a.busy = a.probes

C8_Witness ==
  \E c \in Calls :
    /\ call[c].pc = "alloc_thrown"
    /\ call[c].alloc.probes = 10
    /\ call[c].alloc.busy = 10

\* C9: a call returns a success descriptor exactly when its launch succeeded
\* and the status read after the grace period is not empty; the descriptor
\* carries the port of the launch (the requested port, probed free, when one
\* was requested), url http://localhost:<port>, and passwordless exactly when
\* the resolved credential is the empty string.
C9_SuccessDescriptor ==
  \A c \in Calls :
    Done(c) =>
      LET me == call[c]
          launchedAndUp ==
            /\ me.launched = 1 /\ me.launchError = <<>>
            /\ me.statusQueried = 1 /\ Trim(me.containerStatus) # <<>>
      IN /\ (me.result.kind = "success") <=> launchedAndUp
         /\ me.result.kind = "success" =>
              /\ me.result.port = me.port
              /\ me.params.port # NoPort =>
                   (me.result.port = me.params.port /\ me.requested = "free")
              /\ me.result.url = <<"http://localhost:", me.result.port>>
              /\ me.password =
                   (IF me.params.password = Undefined
                    THEN "changeme" ELSE me.params.password)
              /\ me.result.passwordless <=> (me.password = "")

C9_Witness ==
  \E c \in Calls :
    /\ Done(c)
    /\ call[c].params.port = 12345
    /\ call[c].params.password = ""
    /\ call[c].result.kind = "success"
    /\ call[c].result.port = 12345
    /\ call[c].result.url = <<"http://localhost:", 12345>>
    /\ call[c].result.passwordless

\* C10: a call that ends with a missing-parameter, no-runtime or
\* workspace-not-found error has written and removed no record, probed no
\* port and launched nothing; with a missing parameter it has also run no
\* engine command and has neither read nor written the runtime cache.
C10_FatalNoSideEffects ==
  \A c \in Calls :
    LET me == call[c]
        missing == me.result.message \in {"name parameter is required",
                                          "workspace_path parameter is required"}
        fatal == missing \/ me.result.message \in
                   {"Neither Docker nor Podman is available or running",
                    "Workspace path not found"}
    IN /\ (Done(c) /\ fatal) =>
            /\ me.written = 0 /\ me.unlink = "none" /\ c \notin files
            /\ ~me.portProbed /\ me.launched = 0 /\ me.statusQueried = 0
       /\ (Done(c) /\ missing) =>
            /\ me.engineProbes = 0 /\ me.cacheWrites = 0
            /\ me.cacheRead = Undefined /\ me.runtime = Undefined

C10_Witness ==
  \E c \in Calls :
    /\ Done(c)
    /\ call[c].result.message = "Workspace path not found"
    /\ call[c].engineProbes > 0
    /\ ~call[c].portProbed /\ call[c].written = 0 /\ call[c].launched = 0

\* ------------------------------------------- the command synthesizer alone
\* Environment mappings, as the list of their entries in insertion order.
Environments ==
  { <<>>,
    << <<"NODE_ENV", "dev">> >>,
    << <<"PASSWORD", "leak">> >>,
    << <<"TZ", "UTC">>, <<"PASSWORD", "leak">> >> }
ParamExtensions == {Undefined, "given"}
GivenExtensions == <<"golang.go">>

\* The inputs of lines 193-204 and 229 for one call past the port resolution.
BuildInputs ==
  [pc : {"input"}, runtime : Runtimes, port : {12345, RandomPort(<<0, 1>>)},
   password : ParamPasswords \cup {Null}, extensions : ParamExtensions,
   environment : Environments, containerCommand : {<<>>}]

CmdInit ==
  /\ CONTAINER_RUNTIME = "auto"
  /\ detectedRuntime = Null
  /\ files = {}
  /\ call = [c \in Calls |-> IdleCall]
  /\ probe = NoProbe
  /\ build \in BuildInputs

\* Lines 193-204 and 229: the defaults, then buildContainerCommand.
BuildCommand ==
  /\ build.pc = "input"
  /\ LET password == ResolvePassword(build.password)
         extensions == IF build.extensions = Undefined
                       THEN DEFAULT_EXTENSIONS ELSE GivenExtensions
     IN build' = [build EXCEPT
          !.pc = "built",
          !.containerCommand =
             buildContainerCommand(build.runtime, InstanceName("demo", 1), "/tmp/ws",
                                   build.port, password, extensions,
                                   DEFAULT_CPU_LIMIT, DEFAULT_MEMORY_LIMIT,
                                   build.environment)]
  /\ UNCHANGED <<CONTAINER_RUNTIME, detectedRuntime, files, call, probe>>

CmdNext == BuildCommand

CmdSpec == CmdInit /\ [][CmdNext]_vars

\* C11: the command built for a spec whose password is the empty string has
\* no credential (PASSWORD) environment flag; the command built for a spec
\* whose password is omitted has exactly one, carrying the default, whatever
\* the environment mapping.
C11_PasswordlessCommand ==
  build.pc = "built" =>
    LET flags == CredentialFlags(build.containerCommand) IN
    /\ build.password = "" => flags = {}
    /\ build.password = Undefined =>
         /\ Cardinality(flags) = 1
         /\ \A i \in flags : build.containerCommand[i + 1][3] = "changeme"

\* C12: whenever a call's launch fails with "port is already allocated" and
\* the deletion of its record fails too, the call still returns the
\* port-already-allocated error carrying a suggested port, and the returned
\* error does not mention the deletion.
C12_UnlinkFailureNotMasking ==
  \A c \in Calls :
    (Done(c) /\ LaunchPortAllocated(c) /\ call[c].unlink = "failed") =>
      /\ call[c].result.kind = "error"
      /\ call[c].result.message = "Port is already allocated"
      /\ call[c].result.suggested_port # NoPort

\* C13: within one call the launch command is executed at most once and the
\* record is written at most once; once a launch has failed, the call only
\* rolls back, allocates the port to suggest, and returns: it is never again
\* at the write or launch step.
C13_NoAutomaticRetry ==
  \A c \in Calls :
    /\ call[c].launched <= 1
    /\ call[c].written <= 1
    /\ call[c].launchError # <<>> =>
         call[c].pc \in {"unlink", "alloc", "alloc_returned", "alloc_thrown", "done"}

C13_Witness ==
  \E c \in Calls :
    /\ Done(c) /\ LaunchPortAllocated(c)
    /\ call[c].result.suggested_port # NoPort
    /\ call[c].launched = 1 /\ call[c].written = 1

\* Call c ran the detection of lines 42-72: no override, cache empty, auto mode.
Detects(c) == call[c].probeLog # <<>>

\* Engine e passed its binary check and its daemon check in call c.
Passes(c, e) ==
  /\ \E i \in 1..Len(call[c].probeLog) : call[c].probeLog[i] = <<e, "version", TRUE>>
  /\ \E i \in 1..Len(call[c].probeLog) : call[c].probeLog[i] = <<e, "ps", TRUE>>

\* The probes of call c in the order of lines 42-72: docker first, a binary
\* check followed, if it passes, by the daemon check; podman after a failed
\* check of docker; nothing after an engine has passed or podman has failed.
ProbeOrder(c) ==
  LET log == call[c].probeLog IN
  /\ log[1][1] = "docker" /\ log[1][2] = "version"
  /\ \A i \in 1..(Len(log) - 1) :
       /\ (log[i][2] = "version" /\ log[i][3]) =>
            (log[i + 1][1] = log[i][1] /\ log[i + 1][2] = "ps")
       /\ (log[i][1] = "docker" /\ ~log[i][3]) =>
            (log[i + 1][1] = "podman" /\ log[i + 1][2] = "version")
       /\ ~(log[i][2] = "ps" /\ log[i][3])
       /\ ~(log[i][1] = "podman" /\ ~log[i][3])

\* Call c is still inside detectContainerRuntime.
Detecting(c) == call[c].pc \in {"docker_version", "docker_ps", "podman_version", "podman_ps"}

\* C15: detection with an empty cache in auto mode probes docker before
\* podman, each by its binary check and then its daemon check; a failed check
\* of docker, of either kind, only moves detection on to podman; the first
\* engine passing both checks is returned and cached; the no-runtime error is
\* returned only when neither engine passed both checks, and then the cache
\* is still empty.
C15_DetectionOrder ==
  \A c \in Calls :
    Detects(c) =>
      LET log == call[c].probeLog
          last == log[Len(log)]
      IN /\ Truthy(call[c].params.runtime) = FALSE
         /\ call[c].cacheRead = Null /\ CONTAINER_RUNTIME = "auto"
         /\ ProbeOrder(c)
         /\ (last[1] = "docker" /\ ~last[3]) => call[c].pc = "podman_version"
         /\ (last[2] = "version" /\ last[3]) => Detecting(c)
         /\ (last[2] = "ps" /\ last[3]) =>
              /\ ~Detecting(c) /\ call[c].result # NoRuntimeError
              /\ call[c].runtime = last[1] /\ Passes(c, last[1])
              /\ (last[1] = "podman" => ~Passes(c, "docker"))
              /\ call[c].cacheWrites = 1 /\ detectedRuntime = last[1]
         /\ (last[1] = "podman" /\ ~last[3]) =>
              /\ Done(c) /\ call[c].result = NoRuntimeError
              /\ ~Passes(c, "docker") /\ ~Passes(c, "podman")
              /\ call[c].cacheWrites = 0 /\ detectedRuntime = Null
         /\ call[c].result = NoRuntimeError => (last[1] = "podman" /\ ~last[3])

\* Docker's daemon is down, podman passes both checks and is cached.
C15_Witness ==
  \E c \in Calls :
    /\ call[c].probeLog = << <<"docker", "version", TRUE>>, <<"docker", "ps", FALSE>>,
                            <<"podman", "version", TRUE>>, <<"podman", "ps", TRUE>> >>
    /\ call[c].runtime = "podman" /\ detectedRuntime = "podman"

C20_LaunchPortProbedFree ==
  \A c \in Calls :
    /\ call[c].written > 0 =>
         /\ call[c].freePort # NoPort /\ call[c].portProbed
         /\ call[c].recordPort = call[c].freePort
         /\ TruthyNumber(call[c].params.port) =>
              (call[c].freePort = call[c].params.port /\ call[c].requested = "free")
         /\ ~TruthyNumber(call[c].params.port) => call[c].requested = "none"
    /\ call[c].launched > 0 =>
         /\ call[c].written > 0
         /\ HostPorts(call[c].containerCommand) = {call[c].freePort}

\* One launch with a requested port and one with an allocated port.
C20_Witness ==
  \E c \in Calls :
    /\ call[c].launched = 1 /\ ~TruthyNumber(call[c].params.port)
    /\ call[c].freePort = RandomPort(<<38667, 38668>>)
    /\ HostPorts(call[c].containerCommand) = {call[c].freePort}
    /\ call[c].recordPort = call[c].freePort

\* --------------------------------------------------- the port prober alone
\* checkPortAvailability(port) step by step: the server is created and told
\* to listen, the runtime emits 'listening' or 'error', and the handler of
\* that event runs. Other processes bind and release ports meanwhile.
ProbePorts == {RandomPort(r) : r \in RandomValues}

ProbeInit ==
  /\ CONTAINER_RUNTIME = "auto"
  /\ detectedRuntime = Null
  /\ files = {}
  /\ call = [c \in Calls |-> IdleCall]
  /\ build = NoBuild
  /\ probe \in {[NoProbe EXCEPT !.held = h] : h \in SUBSET ProbePorts}

ProbeUnchanged == UNCHANGED <<CONTAINER_RUNTIME, detectedRuntime, files, call, build>>

\* Lines 389-390 and 409: new Promise, net.createServer(), server.listen(port).
CreateServer ==
  /\ probe.pc \in {"idle", "settled"}
  /\ \E port \in ProbePorts :
       probe' = [NoProbe EXCEPT !.pc = "created", !.port = port, !.held = probe.held]
  /\ ProbeUnchanged

\* Another process binds or releases a port.
OtherBinds ==
  /\ \E p \in ProbePorts \ probe.held :
       /\ ~(probe.listening /\ p = probe.port)
       /\ probe' = [probe EXCEPT !.held = @ \cup {p}]
  /\ ProbeUnchanged

OtherReleases ==
  /\ \E p \in probe.held : probe' = [probe EXCEPT !.held = @ \ {p}]
  /\ ProbeUnchanged

\* The bind of line 409 completes: EADDRINUSE when the port is held, otherwise
\* the server listens or the bind fails with another error.
Bind ==
  /\ probe.pc = "created"
  /\ \E outcome \in ListenOutcomes :
       /\ (outcome = "EADDRINUSE") <=> (probe.port \in probe.held)
       /\ probe' = [probe EXCEPT !.pc = "event", !.event = outcome,
                                 !.listening = (outcome = "listening")]
  /\ ProbeUnchanged

\* Lines 392-400: the 'error' handler resolves, then closes the server.
OnError ==
  /\ probe.pc = "event" /\ probe.event # "listening"
  /\ probe' = [probe EXCEPT !.pc = "settled",
                            !.resolved = Append(@, checkPortAvailability(probe.event)),
                            !.listening = FALSE, !.closed = @ + 1]
  /\ ProbeUnchanged

\* Lines 402-406: the 'listening' handler closes the server, then resolves.
OnListening ==
  /\ probe.pc = "event" /\ probe.event = "listening"
  /\ probe' = [probe EXCEPT !.pc = "settled",
                            !.listening = FALSE, !.closed = @ + 1,
                            !.resolved = Append(@, checkPortAvailability(probe.event))]
  /\ ProbeUnchanged

ProbeNext ==
  \/ CreateServer
  \/ OtherBinds
  \/ OtherReleases
  \/ Bind
  \/ OnError
  \/ OnListening

ProbeSpec == ProbeInit /\ [][ProbeNext]_vars

Progress(c) ==
  \/ Validate(c) \/ ResolveRuntime(c)
  \/ ExecDockerVersion(c) \/ ExecDockerPs(c) \/ ExecPodmanVersion(c) \/ ExecPodmanPs(c)
  \/ AccessWorkspace(c) \/ ResolvePort(c)
  \/ GetRandomPortProbe(c) \/ GetRandomPortGiveUp(c) \/ AllocReturned(c) \/ AllocThrown(c)
  \/ Mkdir(c) \/ WriteRecord(c) \/ Launch(c) \/ Unlink(c) \/ Grace(c) \/ QueryStatus(c)

FairSpec == Init /\ [][Next]_vars /\ \A c \in Calls : WF_vars(Progress(c))

\* C18: every call that has been invoked eventually has its result, and a
\* call holds a result exactly when it is done: a success descriptor or an
\* error descriptor, never an escaped exception, the allocator's exhaustion
\* included.
C18_EventuallyOneResult ==
  /\ [](\A c \in Calls :
          /\ Done(c) <=> call[c].result.kind \in {"success", "error"}
          /\ call[c].pc # "rejected")
  /\ \A c \in Calls : (call[c].pc \notin {"idle", "returned"}) ~> Done(c)

\* The allocator gave up during a rollback and the call still returned an
\* error descriptor.
C18_Witness ==
  \E c \in Calls :
    /\ Done(c) /\ call[c].launched = 1 /\ call[c].unlink # "none"
    /\ call[c].result.kind = "error"
    /\ call[c].result.cause = "Could not find an available port after multiple attempts"

\* ------------------------------------------------------- concurrent calls
\* The caller does not wait for a call to return before making the next one:
\* the steps of the calls interleave at their awaits. The calls name their
\* workspace, ask for the same port and leave the runtime to detection.
ConcParams ==
  {p \in Params : /\ Truthy(p.name) /\ Truthy(p.workspace_path)
                  /\ TruthyNumber(p.port)
                  /\ p.password = Undefined /\ p.runtime = Undefined}

InvokeConcurrently(c) == Invoke(c) /\ call'[c].params \in ConcParams

ConcNext ==
  \/ \E c \in Calls : InvokeConcurrently(c)
  \/ \E c \in Calls : Validate(c)
  \/ \E c \in Calls : ResolveRuntime(c)
  \/ \E c \in Calls : ExecDockerVersion(c)
  \/ \E c \in Calls : ExecDockerPs(c)
  \/ \E c \in Calls : ExecPodmanVersion(c)
  \/ \E c \in Calls : ExecPodmanPs(c)
  \/ \E c \in Calls : AccessWorkspace(c)
  \/ \E c \in Calls : ResolvePort(c)
  \/ \E c \in Calls : GetRandomPortProbe(c)
  \/ \E c \in Calls : GetRandomPortGiveUp(c)
  \/ \E c \in Calls : AllocReturned(c)
  \/ \E c \in Calls : AllocThrown(c)
  \/ \E c \in Calls : Mkdir(c)
  \/ \E c \in Calls : WriteRecord(c)
  \/ \E c \in Calls : Launch(c)
  \/ \E c \in Calls : Unlink(c)
  \/ \E c \in Calls : Grace(c)
  \/ \E c \in Calls : QueryStatus(c)
  \/ \E c \in Calls : Return(c)

ConcSpec == Init /\ [][ConcNext]_vars

\* C14: under any interleaving of concurrent calls without an override, once
\* the cache holds a runtime no step of any call assigns it again, and its
\* value never changes.
C14_CacheWrittenOnce ==
  [][detectedRuntime # Null =>
       /\ detectedRuntime' = detectedRuntime
       /\ \A c \in Calls : call'[c].cacheWrites <= call[c].cacheWrites]_vars

\* Call c changes the records directory in this step.
Touches(c) == call'[c] # call[c] /\ files' # files

\* C19: under any interleaving of concurrent calls, a step of a call adds to
\* or removes from the records directory only the call's own record file:
\* the rollback of one call leaves the records of the other calls in place.
C19_OwnRecordOnly ==
  [][\A c \in Calls :
       Touches(c) =>
         /\ call[c].pc \in {"write", "unlink"}
         /\ \A d \in Calls \ {c} : (d \in files') <=> (d \in files)]_vars

\* Two calls raced on the same port; the loser has rolled back its own
\* record and the winner's record is in place.
C19_Witness ==
  \E c \in Calls, d \in Calls :
    /\ c # d /\ call[c].port = call[d].port /\ call[c].port # NoPort
    /\ call[c].unlink = "ok" /\ c \notin files
    /\ call[d].written = 1 /\ call[d].launched = 1 /\ call[d].launchError = <<>>
    /\ d \in files

====
